---- MODULE Spec2Model ----
(***************************************************************************)
(* A model of bot.py: the BOS/ChoCh structure tracker, the four chart      *)
(* pattern detectors, the per-symbol analyzer, the scan loop and the       *)
(* Telegram notifier.  Python indices are 0-based; At(s, j) reads the      *)
(* element at Python index j of a frame s.                                 *)
(***************************************************************************)
EXTENDS Integers, Sequences, FiniteSets, TLC

\* ------------------------------------------------------------------ bounds
\* Longest candle series fed to the structure tracker.
MaxLen == 7

\* Longest candle series fed to the pattern detectors.
MaxPatLen == 7

\* Longest market listing load_markets returns.
MaxMarkets == 4

\* MIN_VOLUME = 20_000_000
MIN_VOLUME == 20000000

VARIABLES
    \* detect_bos_and_choch: its frame copy, loop index and locals
    tpc, df, i, bos_count, choch_detected, last_trend, signals,
    \* detect_patterns: its frame, its position in the detector list, the
    \* detector calls made so far and the value returned
    ppc, pdf, k, evaluated, pattern,
    \* __main__ and run_bot: position, listing, loop state, what was printed,
    \* what reached requests.post, how the process ended
    bpc, markets, usdt_pairs, idx, visited, tickers, analysed, log, posted,
    pending_exc, exit_status,
    \* analyze_symbol: its locals and the send_telegram_message calls it made
    df_daily, df_1h, df_5m, tf, bos_daily, choch_daily, bos_1h, choch_1h,
    bos_5m, choch_5m, alerts,
    \* the first complete analysis of the scan: its inputs, results and alerts
    memo

tvars == <<tpc, df, i, bos_count, choch_detected, last_trend, signals>>
pvars == <<ppc, pdf, k, evaluated, pattern>>
rvars == <<markets, usdt_pairs, idx, visited, tickers, analysed, log, posted,
           pending_exc, exit_status>>
avars == <<df_daily, df_1h, df_5m, tf, bos_daily, choch_daily, bos_1h, choch_1h,
           bos_5m, choch_5m, alerts>>
bvars == <<bpc, rvars, avars, memo>>
vars == <<tvars, pvars, bvars>>

\* ------------------------------------------------------------- data frames
\* A missing cell of a pandas column (NaN / None); a present cell is <<v>>.
NaN == <<>>

notna(cell) == cell # NaN

\* df[col].iloc[j] for a Python index j inside the frame.
At(s, j) == s[j + 1]

\* df["high"].shift(1).iloc[j] and df["high"].shift(-1).iloc[j]: the neighbour's
\* cell, NaN beyond either end of the frame.
shift_high(s, j, n) ==
    IF j - n >= 0 /\ j - n < Len(s) THEN <<At(s, j - n).high>> ELSE NaN

shift_low(s, j, n) ==
    IF j - n >= 0 /\ j - n < Len(s) THEN <<At(s, j - n).low>> ELSE NaN

\* A comparison with NaN is False.
gt(x, cell) == cell # NaN /\ x > cell[1]

lt(x, cell) == cell # NaN /\ x < cell[1]

\* df["swing_high"].iloc[j]: the high where it is strictly above both neighbours.
swing_high(s, j) ==
    IF /\ gt(At(s, j).high, shift_high(s, j, 1))
       /\ gt(At(s, j).high, shift_high(s, j, -1))
    THEN <<At(s, j).high>> ELSE NaN

\* df["swing_low"].iloc[j]: the low where it is strictly below both neighbours.
swing_low(s, j) ==
    IF /\ lt(At(s, j).low, shift_low(s, j, 1))
       /\ lt(At(s, j).low, shift_low(s, j, -1))
    THEN <<At(s, j).low>> ELSE NaN

\* ------------------------------------------------------ structure tracker
\* Mutant of LoopStart: the loop starts one candle early.
LoopStartOne == 2 - 1

\* range(2, len(df)): the first index the loop visits.
LoopStart == 2

\* Mutant of Enter: the counters survive from the previous run.
EnterNoReset(frame) ==
    /\ df' = frame
    /\ i' = LoopStart
    /\ tpc' = "loop"
    /\ UNCHANGED <<bos_count, choch_detected, last_trend, signals>>

\* Entry of detect_bos_and_choch(frame): copy the frame, initialise the locals.
Enter(frame) ==
    /\ df' = frame
    /\ i' = LoopStart
    /\ bos_count' = 0
    /\ choch_detected' = FALSE
    /\ last_trend' = "None"
    /\ signals' = <<>>
    /\ tpc' = "loop"

\* Mutant of Flip: a ChoCh leaves the counter at 0 (no increment after the reset).
FlipNoIncrement(from, to) ==
    /\ signals' = IF last_trend = from
                  THEN Append(signals, <<"ChoCh", At(df, i).time>>) ELSE signals
    /\ bos_count' = IF last_trend = from THEN 0 ELSE bos_count + 1
    /\ choch_detected' = IF last_trend = from THEN TRUE ELSE choch_detected
    /\ last_trend' = to

\* One branch of the loop body: a swing point that ends trend `from` emits a
\* ChoCh, resets the counter and sets the flag; then the trend becomes `to` and
\* the counter is incremented.
Flip(from, to) ==
    /\ signals' = IF last_trend = from
                  THEN Append(signals, <<"ChoCh", At(df, i).time>>) ELSE signals
    /\ bos_count' = (IF last_trend = from THEN 0 ELSE bos_count) + 1
    /\ choch_detected' = IF last_trend = from THEN TRUE ELSE choch_detected
    /\ last_trend' = to

\* Mutant of TrackerStep: the swing low is tested first.
TrackerStepLowFirst ==
    /\ tpc = "loop"
    /\ i < Len(df)
    /\ IF notna(swing_low(df, i)) THEN Flip("down", "up")
       ELSE IF notna(swing_high(df, i)) THEN Flip("up", "down")
       ELSE UNCHANGED <<bos_count, choch_detected, last_trend, signals>>
    /\ i' = i + 1
    /\ UNCHANGED <<tpc, df, pvars, bvars>>

\* One iteration of `for i in range(2, len(df))`.
TrackerStep ==
    /\ tpc = "loop"
    /\ i < Len(df)
    /\ IF notna(swing_high(df, i)) THEN Flip("up", "down")
       ELSE IF notna(swing_low(df, i)) THEN Flip("down", "up")
       ELSE UNCHANGED <<bos_count, choch_detected, last_trend, signals>>
    /\ i' = i + 1
    /\ UNCHANGED <<tpc, df, pvars, bvars>>

\* The loop is exhausted: return bos_count, choch_detected, signals.
TrackerReturn ==
    /\ tpc = "loop"
    /\ i >= Len(df)
    /\ tpc' = "returned"
    /\ UNCHANGED <<df, i, bos_count, choch_detected, last_trend, signals, pvars, bvars>>


\* ------------------------------------------------------ pattern detectors
Abs(x) == IF x < 0 THEN -x ELSE x

SetMin(S) == CHOOSE x \in S : \A y \in S : x <= y

SetMax(S) == CHOOSE x \in S : \A y \in S : y <= x

\* df["close"].iloc[-1]
last_close(s) == At(s, Len(s) - 1).close

\* min(df["low"].iloc[a:b]) and max(df["high"].iloc[a:b]), b exclusive.
min_low(s, a, b) == SetMin({ At(s, j).low : j \in a..(b - 1) })

max_high(s, a, b) == SetMax({ At(s, j).high : j \in a..(b - 1) })

\* abs(x - y) / base < 0.003 for a positive base, in exact arithmetic.
within_tolerance(x, y, base) == Abs(x - y) * 1000 < 3 * base

\* abs(x - y) / base < 0.05 for a positive base, in exact arithmetic.
within_shoulder(x, y, base) == Abs(x - y) * 100 < 5 * base

\* for i in range(2, len(highs)-2): two highs two candles apart within the
\* tolerance, confirmed by the last close below the lowest low between them.
detect_double_top(s) ==
    IF \E j \in 2..(Len(s) - 3) :
          /\ within_tolerance(At(s, j).high, At(s, j + 2).high, At(s, j).high)
          /\ last_close(s) < min_low(s, j, j + 3)
    THEN [found |-> TRUE, pattern |-> "DOUBLE TOP"]
    ELSE [found |-> FALSE, pattern |-> "None"]

detect_double_bottom(s) ==
    IF \E j \in 2..(Len(s) - 3) :
          /\ within_tolerance(At(s, j).low, At(s, j + 2).low, At(s, j).low)
          /\ last_close(s) > max_high(s, j, j + 3)
    THEN [found |-> TRUE, pattern |-> "DOUBLE BOTTOM"]
    ELSE [found |-> FALSE, pattern |-> "None"]

\* for i in range(3, len(highs)-3): a head above two shoulders of close height.
detect_head_shoulders(s) ==
    IF \E j \in 3..(Len(s) - 4) :
          LET L == At(s, j - 2).high
              H == At(s, j).high
              R == At(s, j + 2).high
          IN  /\ H > L
              /\ H > R
              /\ within_shoulder(L, R, H)
              /\ last_close(s) < min_low(s, j - 2, j + 3)
    THEN [found |-> TRUE, pattern |-> "HEAD & SHOULDERS"]
    ELSE [found |-> FALSE, pattern |-> "None"]

detect_inverse_head_shoulders(s) ==
    IF \E j \in 3..(Len(s) - 4) :
          LET L == At(s, j - 2).low
              H == At(s, j).low
              R == At(s, j + 2).low
          IN  /\ H < L
              /\ H < R
              /\ within_shoulder(L, R, H)
              /\ last_close(s) > max_high(s, j - 2, j + 3)
    THEN [found |-> TRUE, pattern |-> "INVERSE HEAD & SHOULDERS"]
    ELSE [found |-> FALSE, pattern |-> "None"]

\* Mutant of detectors: head & shoulders is tried before the double shapes.
detectors_hs_first ==
    <<"detect_head_shoulders", "detect_double_top", "detect_double_bottom",
      "detect_inverse_head_shoulders">>

\* detectors = [detect_double_top, detect_double_bottom, ...]
detectors ==
    <<"detect_double_top", "detect_double_bottom", "detect_head_shoulders",
      "detect_inverse_head_shoulders">>

\* detector(df) for a detector of the list.
Run(detector, s) ==
    CASE detector = "detect_double_top" -> detect_double_top(s)
      [] detector = "detect_double_bottom" -> detect_double_bottom(s)
      [] detector = "detect_head_shoulders" -> detect_head_shoulders(s)
      [] detector = "detect_inverse_head_shoulders" -> detect_inverse_head_shoulders(s)

\* Entry of detect_patterns(frame).
PatternsEnter(frame) ==
    /\ pdf' = frame
    /\ k' = 1
    /\ evaluated' = <<>>
    /\ pattern' = "None"
    /\ ppc' = "loop"

\* One iteration of `for detector in detectors`: call it, return its pattern
\* when it confirms.
PatternsEvaluate ==
    /\ ppc = "loop"
    /\ k <= Len(detectors)
    /\ LET r == Run(detectors[k], pdf)
       IN  /\ evaluated' = Append(evaluated, [detector |-> detectors[k], found |-> r.found])
           /\ IF r.found
              THEN pattern' = r.pattern /\ ppc' = "returned" /\ k' = k
              ELSE k' = k + 1 /\ UNCHANGED <<pattern, ppc>>
    /\ UNCHANGED <<pdf, tvars, bvars>>

\* No detector confirmed: return None.
PatternsReturnNone ==
    /\ ppc = "loop"
    /\ k > Len(detectors)
    /\ pattern' = "None"
    /\ ppc' = "returned"
    /\ UNCHANGED <<pdf, k, evaluated, tvars, bvars>>

PatternsIdle ==
    /\ ppc = "idle"
    /\ pdf = <<>>
    /\ k = 0
    /\ evaluated = <<>>
    /\ pattern = "None"

\* ------------------------------------------------- inputs of the scan
\* A symbol base/quote, or base/quote:settle for a contract.
Sym(b, q, st) == [base |-> b, quote |-> q, settle |-> st]

\* A fetch_ohlcv result: None, or a frame.
None == [ok |-> FALSE, data |-> <<>>]

Frame(s) == [ok |-> TRUE, data |-> s]

\* The exchange's listing, in its order; load_markets returns a prefix of it.
AllMarkets ==
    <<Sym("BTC", "USDT", ""), Sym("BTC", "USDT", "USDT"), Sym("ETH", "USDT", ""),
      Sym("SOL", "USDT", ""), Sym("ETH", "BTC", "")>>

\* fetch_ticker: it raises, or returns a ticker with this quoteVolume.
TickerOutcomes ==
    { [raised |-> TRUE, quoteVolume |-> NaN] }
    \cup { [raised |-> FALSE, quoteVolume |-> v] :
             v \in {NaN, <<0>>, <<MIN_VOLUME - 1>>, <<MIN_VOLUME>>} }

Candles(highs, lows) ==
    [j \in 1..Len(highs) |->
        [time |-> 60 * j, high |-> highs[j], low |-> lows[j], close |-> lows[j]]]

\* Flat highs, a last candle that closes under every earlier low: no swing
\* point, and a confirmed double top.
FrameDrop == Candles(<<5, 5, 5, 5, 5, 5>>, <<2, 2, 2, 2, 2, 1>>)

\* A swing high at index 2 and a swing low at index 3: one ChoCh, count 1.
FrameChoch == Candles(<<4, 4, 5, 4, 4>>, <<2, 2, 2, 1, 2>>)

\* Swing highs at indices 2 and 4: count 2, no ChoCh.
FrameTwo == Candles(<<4, 4, 5, 4, 5, 4>>, <<2, 2, 2, 2, 2, 2>>)

\* fetch_ohlcv: None after a failed fetch, or one of the frames.
FetchOutcomes == { None, Frame(FrameDrop), Frame(FrameChoch), Frame(FrameTwo) }

\* --------------------------------------------------------------- notifier
\* The module-level names bound when the scan runs.
Globals ==
    {"TELEGRAM_BOT_TOKEN", "CHAT_ID", "EXCHANGE", "MIN_VOLUME", "send_telegram_message",
     "fetch_ohlcv", "detect_bos_and_choch", "detect_patterns", "analyze_symbol", "run_bot"}

\* The ways a call of send_telegram_message (the definition in force, the
\* second one) can end: building the payload reads TELEGRAM_CHAT_ID outside the
\* try block; requests.post either returns or raises inside it.
send_telegram_message ==
    IF "TELEGRAM_CHAT_ID" \in Globals THEN {"posted", "post_failed"} ELSE {"NameError"}

\* ------------------------------------------------------------- the runner
\* symbol.endswith("/USDT") for a symbol written base/quote or base/quote:settle.
endswith_usdt(sym) == sym.quote = "USDT" /\ sym.settle = ""

RECURSIVE usdt_filter(_)
\* [s for s in markets if s.endswith("/USDT")]
usdt_filter(ms) ==
    IF ms = <<>> THEN <<>>
    ELSE IF endswith_usdt(Head(ms)) THEN <<Head(ms)>> \o usdt_filter(Tail(ms))
    ELSE usdt_filter(Tail(ms))

\* The symbol the loop is at.
symbol == usdt_pairs[idx + 1]

\* ticker["quoteVolume"] and ticker["quoteVolume"] >= MIN_VOLUME
volume_ok(cell) == cell # NaN /\ cell[1] # 0 /\ cell[1] >= MIN_VOLUME

\* run_bot starts: load_markets raises, or returns a listing.
LoadMarkets ==
    /\ bpc = "start"
    /\ \/ /\ pending_exc' = "load_markets"
          /\ bpc' = "finally"
          /\ UNCHANGED <<markets, usdt_pairs>>
       \/ /\ \E n \in 0..MaxMarkets :
                /\ n <= Len(AllMarkets)
                /\ markets' = SubSeq(AllMarkets, 1, n)
                /\ usdt_pairs' = usdt_filter(SubSeq(AllMarkets, 1, n))
          /\ bpc' = "loop"
          /\ UNCHANGED pending_exc
    /\ UNCHANGED <<idx, visited, tickers, analysed, log, posted, exit_status,
                   avars, memo, tvars, pvars>>

\* Mutant of FetchTicker: a failing fetch_ticker is not caught and ends the loop.
FetchTickerNoCatch ==
    /\ bpc = "loop"
    /\ idx < Len(usdt_pairs)
    /\ visited' = Append(visited, symbol)
    /\ \E t \in TickerOutcomes :
          /\ tickers' = Append(tickers, t)
          /\ IF t.raised
             THEN /\ pending_exc' = "fetch_ticker"
                  /\ bpc' = "finally"
                  /\ UNCHANGED <<log, idx, analysed>>
             ELSE IF volume_ok(t.quoteVolume)
             THEN /\ analysed' = Append(analysed, symbol)
                  /\ bpc' = "analyze"
                  /\ UNCHANGED <<log, idx, pending_exc>>
             ELSE /\ idx' = idx + 1
                  /\ UNCHANGED <<log, analysed, bpc, pending_exc>>
    /\ UNCHANGED <<markets, usdt_pairs, posted, exit_status, avars, memo,
                   tvars, pvars>>

\* One iteration of `for symbol in usdt_pairs` up to the call of analyze_symbol:
\* fetch_ticker raises (caught, printed) or returns a ticker.
FetchTicker ==
    /\ bpc = "loop"
    /\ idx < Len(usdt_pairs)
    /\ visited' = Append(visited, symbol)
    /\ \E t \in TickerOutcomes :
          /\ tickers' = Append(tickers, t)
          /\ IF t.raised
             THEN /\ log' = Append(log, [kind |-> "Error filtering", symbol |-> symbol,
                                         exc |-> "fetch_ticker"])
                  /\ idx' = idx + 1
                  /\ UNCHANGED <<analysed, bpc>>
             ELSE IF volume_ok(t.quoteVolume)
             THEN /\ analysed' = Append(analysed, symbol)
                  /\ bpc' = "analyze"
                  /\ UNCHANGED <<log, idx>>
             ELSE /\ idx' = idx + 1
                  /\ UNCHANGED <<log, analysed, bpc>>
    /\ UNCHANGED <<markets, usdt_pairs, posted, pending_exc, exit_status, avars,
                   memo, tvars, pvars>>

\* The loop is exhausted: run_bot returns and the finally clause runs.
LoopDone ==
    /\ bpc = "loop"
    /\ idx >= Len(usdt_pairs)
    /\ bpc' = "finally"
    /\ UNCHANGED <<rvars, avars, memo, tvars, pvars>>

\* ------------------------------------------------------------ the analyzer
\* The lines fetch_ohlcv prints for the fetches that failed.
fetch_errors(sym, d, h, m) ==
    (IF d.ok THEN <<>> ELSE <<[kind |-> "Error fetching", symbol |-> sym, exc |-> "1d"]>>)
    \o (IF h.ok THEN <<>> ELSE <<[kind |-> "Error fetching", symbol |-> sym, exc |-> "1h"]>>)
    \o (IF m.ok THEN <<>> ELSE <<[kind |-> "Error fetching", symbol |-> sym, exc |-> "5m"]>>)

\* analyze_symbol starts: the three fetches, the None check, and the entry of
\* the daily tracker run.
AnalyzeFetch ==
    /\ bpc = "analyze"
    /\ \E d \in FetchOutcomes, h \in FetchOutcomes, m \in FetchOutcomes :
          /\ df_daily' = d
          /\ df_1h' = h
          /\ df_5m' = m
          /\ log' = log \o fetch_errors(symbol, d, h, m)
          /\ IF d.ok /\ h.ok /\ m.ok
             THEN /\ Enter(d.data)
                  /\ tf' = "1d"
                  /\ bpc' = "track"
             ELSE /\ tf' = "None"
                  /\ bpc' = "return"
                  /\ UNCHANGED tvars
    /\ bos_daily' = NaN
    /\ choch_daily' = NaN
    /\ bos_1h' = NaN
    /\ choch_1h' = NaN
    /\ bos_5m' = NaN
    /\ choch_5m' = NaN
    /\ alerts' = <<>>
    /\ UNCHANGED <<markets, usdt_pairs, idx, visited, tickers, analysed, posted,
                   pending_exc, exit_status, memo, pvars>>

\* A tracker run has returned: bind its result, enter the next run.
AnalyzeStore ==
    /\ bpc = "track"
    /\ tpc = "returned"
    /\ CASE tf = "1d" ->
              /\ bos_daily' = <<bos_count>>
              /\ choch_daily' = <<choch_detected>>
              /\ Enter(df_1h.data)
              /\ tf' = "1h"
              /\ UNCHANGED <<bos_1h, choch_1h, bos_5m, choch_5m, bpc>>
         [] tf = "1h" ->
              /\ bos_1h' = <<bos_count>>
              /\ choch_1h' = <<choch_detected>>
              /\ Enter(df_5m.data)
              /\ tf' = "5m"
              /\ UNCHANGED <<bos_daily, choch_daily, bos_5m, choch_5m, bpc>>
         [] tf = "5m" ->
              /\ bos_5m' = <<bos_count>>
              /\ choch_5m' = <<choch_detected>>
              /\ tf' = "None"
              /\ bpc' = "trend"
              /\ UNCHANGED <<bos_daily, choch_daily, bos_1h, choch_1h, tvars>>
    /\ UNCHANGED <<rvars, df_daily, df_1h, df_5m, alerts, memo, pvars>>

RECURSIVE first_pattern(_, _)
\* The loop of detect_patterns from detector n on.
first_pattern(s, n) ==
    IF n > Len(detectors) THEN "None"
    ELSE IF Run(detectors[n], s).found THEN Run(detectors[n], s).pattern
    ELSE first_pattern(s, n + 1)

\* detect_patterns(df) as analyze_symbol uses it.
detect_patterns(s) == first_pattern(s, 1)

\* The message an alert category sends.
Msg(category) ==
    [category |-> category, symbol |-> symbol, bos_1h |-> bos_1h[1], bos_5m |-> bos_5m[1]]

\* One `if cond: send_telegram_message(msg)` of analyze_symbol.  A NameError of
\* the notifier reaches the except clause of analyze_symbol, which prints it
\* and ends the analysis.
Alert(cond, category, next) ==
    IF ~cond
    THEN /\ bpc' = next
         /\ UNCHANGED <<alerts, log, posted>>
    ELSE /\ alerts' = Append(alerts, Msg(category))
         /\ \E o \in send_telegram_message :
               CASE o = "NameError" ->
                      /\ log' = Append(log, [kind |-> "Error analyzing", symbol |-> symbol,
                                             exc |-> "send_telegram_message"])
                      /\ bpc' = "return"
                      /\ UNCHANGED posted
                 [] o = "posted" ->
                      /\ posted' = Append(posted, Msg(category))
                      /\ bpc' = next
                      /\ UNCHANGED log
                 [] o = "post_failed" ->
                      /\ log' = Append(log, [kind |-> "Error sending message",
                                             symbol |-> symbol, exc |-> "requests.post"])
                      /\ bpc' = next
                      /\ UNCHANGED posted

AlertFrame ==
    UNCHANGED <<markets, usdt_pairs, idx, visited, tickers, analysed, pending_exc,
                exit_status, df_daily, df_1h, df_5m, tf, bos_daily, choch_daily,
                bos_1h, choch_1h, bos_5m, choch_5m, memo, tvars, pvars>>

AlertTrend ==
    /\ bpc = "trend"
    /\ Alert(bos_1h[1] <= 1 /\ bos_5m[1] <= 1, "TREND FOLLOWING", "counter")
    /\ AlertFrame

AlertCounter ==
    /\ bpc = "counter"
    /\ Alert(bos_1h[1] <= 1 /\ bos_5m[1] <= 1 /\ choch_daily[1], "COUNTER-TREND", "reversal")
    /\ AlertFrame

AlertReversal ==
    /\ bpc = "reversal"
    /\ Alert(bos_1h[1] > 4, "POSSIBLE REVERSAL", "patterns")
    /\ AlertFrame

AlertPattern ==
    /\ bpc = "patterns"
    /\ Alert(detect_patterns(df_1h.data) # "None", "PATTERN ALERT", "return")
    /\ AlertFrame

\* The inputs, results and alerts of the analysis that has just ended; an
\* alert is compared without the symbol it names.
Outcome ==
    [inputs |-> <<df_daily, df_1h, df_5m>>,
     results |-> <<bos_daily, choch_daily, bos_1h, choch_1h, bos_5m, choch_5m>>,
     alerts |-> [n \in 1..Len(alerts) |->
                    [category |-> alerts[n].category, bos_1h |-> alerts[n].bos_1h,
                     bos_5m |-> alerts[n].bos_5m]]]

\* analyze_symbol returns to the loop of run_bot, which moves on.
AnalyzeReturn ==
    /\ bpc = "return"
    /\ idx' = idx + 1
    /\ bpc' = "loop"
    /\ memo' = IF memo = <<>> /\ bos_5m # NaN THEN <<Outcome>> ELSE memo
    /\ UNCHANGED <<markets, usdt_pairs, visited, tickers, analysed, log, posted,
                   pending_exc, exit_status, avars, tvars, pvars>>

\* finally: send_telegram_message("Bot scan completed and is alive."), then the
\* process ends: with the notifier's exception if it raised, else with the one
\* run_bot raised, else normally.
Heartbeat ==
    /\ bpc = "finally"
    /\ \E o \in send_telegram_message :
          CASE o = "NameError" ->
                 /\ exit_status' = "NameError"
                 /\ UNCHANGED <<log, posted>>
            [] o = "posted" ->
                 /\ posted' = Append(posted, [category |-> "HEARTBEAT"])
                 /\ exit_status' = IF pending_exc = "None" THEN "ok" ELSE pending_exc
                 /\ UNCHANGED log
            [] o = "post_failed" ->
                 /\ log' = Append(log, [kind |-> "Error sending message",
                                        symbol |-> "None", exc |-> "requests.post"])
                 /\ exit_status' = IF pending_exc = "None" THEN "ok" ELSE pending_exc
                 /\ UNCHANGED posted
    /\ bpc' = "exit"
    /\ UNCHANGED <<markets, usdt_pairs, idx, visited, tickers, analysed, pending_exc,
                   avars, memo, tvars, pvars>>

BotIdle ==
    /\ bpc = "start"
    /\ markets = <<>>
    /\ usdt_pairs = <<>>
    /\ idx = 0
    /\ visited = <<>>
    /\ tickers = <<>>
    /\ analysed = <<>>
    /\ log = <<>>
    /\ posted = <<>>
    /\ pending_exc = "None"
    /\ exit_status = "running"
    /\ df_daily = None
    /\ df_1h = None
    /\ df_5m = None
    /\ tf = "None"
    /\ bos_daily = NaN
    /\ choch_daily = NaN
    /\ bos_1h = NaN
    /\ choch_1h = NaN
    /\ bos_5m = NaN
    /\ choch_5m = NaN
    /\ alerts = <<>>
    /\ memo = <<>>

\* --------------------------------------------------- tracker specification
\* Candle prices that make every swing shape occur.
Highs == {3, 4}

Lows == {1, 2}

\* The frame of n candles with the given highs and lows.
TrackerFrame(n, h, l) ==
    [j \in 1..n |-> [time |-> 60 * j, high |-> h[j], low |-> l[j], close |-> l[j]]]

TrackerIdle ==
    /\ tpc = "idle"
    /\ df = <<>>
    /\ i = 0
    /\ bos_count = 0
    /\ choch_detected = FALSE
    /\ last_trend = "None"
    /\ signals = <<>>

\* A caller invokes detect_bos_and_choch on some candle series.
TrackerCall ==
    /\ tpc = "idle"
    /\ \E n \in 0..MaxLen :
          \E h \in [1..n -> Highs], l \in [1..n -> Lows] : Enter(TrackerFrame(n, h, l))
    /\ UNCHANGED <<pvars, bvars>>

InitTracker == TrackerIdle /\ PatternsIdle /\ BotIdle

NextTracker ==
    \/ TrackerCall
    \/ TrackerStep
    \/ TrackerReturn

SpecTracker == InitTracker /\ [][NextTracker]_vars

\* ------------------------------------------------ swing points of a frame
\* The candle at Python index j carries a swing mark.
Marked(s, j) == notna(swing_high(s, j)) \/ notna(swing_low(s, j))

\* The kind a marked candle counts as: a candle that satisfies both predicates
\* counts as a swing high.
KindAt(s, j) ==
    IF notna(swing_high(s, j)) THEN "high"
    ELSE IF notna(swing_low(s, j)) THEN "low" ELSE "none"

\* The marked candles the loop has passed when its index is n.
ProcessedIdx(s, n) == { j \in LoopStart..(n - 1) : j < Len(s) /\ Marked(s, j) }

\* The marked candles of the whole frame with an index below n.
MarkedBelow(s, n) == { j \in 0..(n - 1) : j < Len(s) /\ Marked(s, j) }

\* The processed swing point just before j, in P.
PrevIn(P, j) == SetMax({ m \in P : m < j })

\* The length of the maximal trailing run of same-kind swing points in P.
TrailingRun(s, P) ==
    IF P = {} THEN 0
    ELSE Cardinality({ j \in P :
            \A m \in P : m >= j => KindAt(s, m) = KindAt(s, SetMax(P)) })

\* The swing points of P whose kind differs from the one processed before them.
FlipIdx(s, P) ==
    { j \in P : { m \in P : m < j } # {} /\ KindAt(s, PrevIn(P, j)) # KindAt(s, j) }

\* The swing points of a frame strictly alternate high/low/high/low.
Alternating(s) ==
    LET M == MarkedBelow(s, Len(s))
    IN  \A j \in M : { m \in M : m < j } # {} => KindAt(s, PrevIn(M, j)) # KindAt(s, j)

\* The neutral result of a tracker run.
ZeroResult == bos_count = 0 /\ choch_detected = FALSE /\ signals = <<>>

C2_ResetToOne ==
    [][ (tpc = "loop" /\ i' = i + 1) =>
          /\ (Len(signals') > Len(signals)) <=>
                \/ (KindAt(df, i) = "high" /\ last_trend = "up")
                \/ (KindAt(df, i) = "low" /\ last_trend = "down")
          /\ Len(signals') > Len(signals) => bos_count' = 1
          /\ Marked(df, i) => bos_count' >= 1 ]_vars

\* A ChoCh has just been emitted after two swing points of the same kind, so
\* the counter fell from 2 to 1.
C2_Witness ==
    /\ tpc = "loop"
    /\ bos_count = 1
    /\ LET P == ProcessedIdx(df, i)
       IN  /\ Cardinality(P) >= 3
           /\ i - 1 \in FlipIdx(df, P)
           /\ PrevIn(P, i - 1) \notin FlipIdx(df, P)

\* C3 (as stated): for every series whose swing points strictly alternate,
\* choch_occurred is false while at most one swing point lies behind the loop
\* index, true once two or more do, and the ChoCh list only grows by appending.
C3_AlternatingChoch ==
    [][ (tpc' = "loop" /\ Alternating(df')) =>
          /\ Cardinality(MarkedBelow(df', i')) <= 1 => ~choch_detected'
          /\ Cardinality(MarkedBelow(df', i')) >= 2 => choch_detected'
          /\ tpc = "loop" =>
                /\ Len(signals') >= Len(signals)
                /\ SubSeq(signals', 1, Len(signals)) = signals ]_vars

\* C10: while a run is in progress or has returned, bos_count is the length of
\* the maximal trailing run of same-kind processed swing points, the ChoCh
\* events are exactly the processed swing points whose kind differs from the
\* previously processed one, in order and with their candle's timestamp, and
\* choch_occurred is true iff the event list is non-empty; a candle satisfying
\* both swing predicates counts as a swing high.
C10_TrailingRun ==
    tpc \in {"loop", "returned"} =>
        LET P == ProcessedIdx(df, i)
            F == FlipIdx(df, P)
        IN  /\ bos_count = TrailingRun(df, P)
            /\ Len(signals) = Cardinality(F)
            /\ \A j \in F :
                 signals[Cardinality({ m \in F : m <= j })] = <<"ChoCh", At(df, j).time>>
            /\ choch_detected <=> signals # <<>>
            /\ P # {} => last_trend = (IF KindAt(df, SetMax(P)) = "high" THEN "down" ELSE "up")
            /\ P = {} => last_trend = "None"

\* A run has returned after processing a candle that is both a swing high and a
\* swing low, with a trailing run of two and an earlier ChoCh.
C10_Witness ==
    /\ tpc = "returned"
    /\ bos_count = 2
    /\ choch_detected
    /\ \E j \in ProcessedIdx(df, i) :
         notna(swing_high(df, j)) /\ notna(swing_low(df, j))

\* --------------------------------------------------- pattern specification
\* Candles whose highs and lows make every shape predicate pass and fail.
PatternCandles ==
    { [high |-> 900, low |-> 800], [high |-> 1000, low |-> 850],
      [high |-> 1002, low |-> 852] }

\* Last closes below every low, between the lows, and above every high.
LastCloses == {700, 820, 1100}

\* The frame of n candles c whose last candle closes at lc.
PatternFrame(n, c, lc) ==
    [j \in 1..n |-> [time |-> 60 * j, high |-> c[j].high, low |-> c[j].low,
                     close |-> IF j = n THEN lc ELSE c[j].low]]

\* A caller invokes detect_patterns on some candle series.
PatternsCall ==
    /\ ppc = "idle"
    /\ \E n \in 0..MaxPatLen :
          \E c \in [1..n -> PatternCandles], lc \in LastCloses :
              PatternsEnter(PatternFrame(n, c, lc))
    /\ UNCHANGED <<tvars, bvars>>

InitPatterns == TrackerIdle /\ PatternsIdle /\ BotIdle

NextPatterns ==
    \/ PatternsCall
    \/ PatternsEvaluate
    \/ PatternsReturnNone

SpecPatterns == InitPatterns /\ [][NextPatterns]_vars

\* The double top as the table of detectors states it: any i with i+2 inside
\* the series.
ClaimedDoubleTop(s) ==
    \E j \in 0..(Len(s) - 3) :
        /\ within_tolerance(At(s, j).high, At(s, j + 2).high, At(s, j).high)
        /\ last_close(s) < min_low(s, j, j + 3)

\* C4 (as stated): detect_double_top confirms exactly when some i with i+2
\* inside the series (i = 0 included) has highs at i and i+2 within the
\* tolerance and the last close strictly below min(low[i..i+2]).
C4_DoubleTopAnyIndex ==
    \A n \in 1..Len(evaluated) :
        evaluated[n].detector = "detect_double_top" =>
            (evaluated[n].found <=> ClaimedDoubleTop(pdf))

\* The detectors that confirm on a frame, by name.
Confirms(s) == { d \in {detectors_hs_first[n] : n \in 1..4} : Run(d, s).found }

\* C5: detect_patterns returns the pattern of the first confirming detector in
\* the order Double Top, Double Bottom, Head & Shoulders, Inverse Head &
\* Shoulders, None exactly when none confirms, and calls no detector after the
\* first confirming one.
C5_FirstDetectorWins ==
    ppc = "returned" =>
        LET c == Confirms(pdf)
        IN  /\ pattern =
                 (IF "detect_double_top" \in c THEN "DOUBLE TOP"
                  ELSE IF "detect_double_bottom" \in c THEN "DOUBLE BOTTOM"
                  ELSE IF "detect_head_shoulders" \in c THEN "HEAD & SHOULDERS"
                  ELSE IF "detect_inverse_head_shoulders" \in c
                       THEN "INVERSE HEAD & SHOULDERS"
                  ELSE "None")
            /\ (pattern = "None") <=> (c = {})
            /\ [n \in 1..Len(evaluated) |-> evaluated[n].detector] =
                 (IF "detect_double_top" \in c THEN <<"detect_double_top">>
                  ELSE IF "detect_double_bottom" \in c
                       THEN <<"detect_double_top", "detect_double_bottom">>
                  ELSE IF "detect_head_shoulders" \in c
                       THEN <<"detect_double_top", "detect_double_bottom",
                              "detect_head_shoulders">>
                  ELSE <<"detect_double_top", "detect_double_bottom",
                         "detect_head_shoulders", "detect_inverse_head_shoulders">>)
            /\ \A n \in 1..Len(evaluated) :
                 evaluated[n].found <=> (n = Len(evaluated) /\ c # {})

\* detect_patterns has returned on a frame on which both the double top and the
\* head & shoulders confirm; only the double top was called.
C5_Witness ==
    /\ ppc = "returned"
    /\ detect_double_top(pdf).found
    /\ detect_head_shoulders(pdf).found
    /\ pattern = "DOUBLE TOP"
    /\ Len(evaluated) = 1

\* ------------------------------------------------------- scan specification
InitBot == TrackerIdle /\ PatternsIdle /\ BotIdle

NextBot ==
    \/ LoadMarkets
    \/ FetchTicker
    \/ LoopDone
    \/ AnalyzeFetch
    \/ TrackerStep
    \/ TrackerReturn
    \/ AnalyzeStore
    \/ AlertTrend
    \/ AlertCounter
    \/ AlertReversal
    \/ AlertPattern
    \/ AnalyzeReturn
    \/ Heartbeat

SpecBot == InitBot /\ [][NextBot]_vars

\* An analysis that got its three frames has ended and its locals are in place.
AnalysisEnded == bpc \in {"return", "loop", "finally", "exit"} /\ bos_5m # NaN

\* The categories whose condition holds for the analysis that has just ended,
\* in the order analyze_symbol tests them.
DueCategories ==
    (IF bos_1h[1] <= 1 /\ bos_5m[1] <= 1 THEN <<"TREND FOLLOWING">> ELSE <<>>)
    \o (IF bos_1h[1] <= 1 /\ bos_5m[1] <= 1 /\ choch_daily[1]
        THEN <<"COUNTER-TREND">> ELSE <<>>)
    \o (IF bos_1h[1] > 4 THEN <<"POSSIBLE REVERSAL">> ELSE <<>>)
    \o (IF detect_patterns(df_1h.data) # "None" THEN <<"PATTERN ALERT">> ELSE <<>>)

\* C6 (as stated): in one analyze_symbol call each alert category is produced
\* exactly when its own condition holds, independently of the others; with
\* bos_1h = 1, bos_5m = 0 and a daily ChoCh both Trend Following and Counter
\* Trend are produced.
C6_EachCategoryOnItsOwn ==
    AnalysisEnded =>
        [n \in 1..Len(alerts) |-> alerts[n].category] = DueCategories

\* C7 (as stated): send_telegram_message never propagates a failure: no
\* analysis is cut short by the notifier, and the heartbeat never ends the
\* process with the notifier's exception.
C7_SinkBestEffort ==
    /\ \A n \in 1..Len(log) : log[n].exc # "send_telegram_message"
    /\ exit_status # "NameError"

\* The symbols of a list of visited symbols whose ticker came back with a quote
\* volume of at least MIN_VOLUME.
RECURSIVE Selected(_, _)
Selected(syms, ts) ==
    IF syms = <<>> THEN <<>>
    ELSE (IF ~Head(ts).raised /\ Head(ts).quoteVolume # NaN
             /\ Head(ts).quoteVolume[1] >= MIN_VOLUME
          THEN <<Head(syms)>> ELSE <<>>) \o Selected(Tail(syms), Tail(ts))

\* C8: whatever fails for a symbol, the loop of run_bot goes on: the symbols
\* visited are always a prefix of the /USDT symbols of the listing in listing
\* order, each visited symbol is analysed exactly when its ticker was fetched
\* with a quote volume of at least MIN_VOLUME, no exception leaves the loop,
\* and when the loop has ended every /USDT symbol has been visited.
C8_FailuresIsolated ==
    /\ usdt_pairs = SelectSeq(markets, LAMBDA m : m.quote = "USDT" /\ m.settle = "")
    /\ Len(visited) <= Len(usdt_pairs)
    /\ visited = SubSeq(usdt_pairs, 1, Len(visited))
    /\ Len(tickers) = Len(visited)
    /\ analysed = Selected(visited, tickers)
    /\ pending_exc \in {"None", "load_markets"}
    /\ (bpc \in {"finally", "exit"} /\ pending_exc = "None") => visited = usdt_pairs

\* The scan has ended after a failed ticker fetch for the first symbol and a
\* notifier failure inside the analysis of the second.
C8_Witness ==
    /\ bpc = "exit"
    /\ Len(usdt_pairs) >= 2
    /\ visited = usdt_pairs
    /\ tickers[1].raised
    /\ analysed = <<usdt_pairs[2]>>
    /\ \E n \in 1..Len(log) :
         log[n].kind = "Error analyzing" /\ log[n].symbol = usdt_pairs[2]

\* C9: every tracker run starts from bos_count = 0, choch_occurred = false,
\* last_trend unset and no event, and an analysis on the same daily, 1h and 5m
\* frames as the first complete analysis of the scan binds the same tracker
\* results and makes the same alerts, whatever ran in between.
C9_Idempotent ==
    /\ (tpc = "loop" /\ i = LoopStart) =>
          (ZeroResult /\ last_trend = "None")
    /\ (AnalysisEnded /\ memo # <<>> /\ memo[1].inputs = Outcome.inputs) =>
          memo[1] = Outcome

\* A second analysis has ended on the frames of the first one, with a daily
\* ChoCh and non-zero counts, after tracker runs on other frames.
C9_Witness ==
    /\ AnalysisEnded
    /\ Len(analysed) = 2
    /\ memo # <<>>
    /\ memo[1].inputs = Outcome.inputs
    /\ df_daily # df_5m
    /\ choch_daily[1]
    /\ bos_5m[1] = 2
    /\ bpc = "return"

====
